---- MODULE Spec2Model ----
(***************************************************************************)
(* Model of scripts/generate_playlist.py, the myTV playlist generator:     *)
(* fetch four playlists, merge them, load the channel registry and the     *)
(* guide-channel index, enrich the identifier set and POST it to the       *)
(* epg-fetcher, persisting the answer as docs/epg.xml.gz.                  *)
(*                                                                         *)
(* Text is a sequence of chunks (strings).  The chunks that the code looks *)
(* at ("#EXTM3U", "#EXTINF", "tvg-id=\"", the quote, the comma, the        *)
(* semicolon, white space) are chunks of their own; every other chunk is   *)
(* opaque text without any of these characters.                            *)
(***************************************************************************)
EXTENDS Integers, Sequences, FiniteSets, TLC

VARIABLES
    pc,               \* position of the script
    COUNTRY_CODE,     \* os.getenv("COUNTRY_CODE", "us")
    EPG_FETCHER_URL,  \* os.getenv("EPG_FETCHER_URL", ""), <<>> when unset
    combined,         \* the combined playlist text
    channel_ids,      \* set of identifiers
    totals,           \* label -> number of #EXTINF
    channel_db,       \* identifier -> [name, lang]
    epg_channels,     \* identifier -> [site, site_id]
    enriched,         \* list of entries sent to the epg-fetcher
    playlist_file,    \* docs/playlist.m3u8
    epg_file,         \* docs/epg.xml.gz
    calls,            \* remote call -> number of attempts
    fetched,          \* what each requests.get of Step 1 returned, in order
    registry_text,    \* r.text of Step 2 (<<>> when the GET failed)
    registry_result,  \* "pending" | "ok" | "failed"
    guide_result,     \* "pending" | "ok" | "failed"
    resp,             \* the response of the POST
    post_result       \* "pending" | "ok" | "failed"

vars == <<pc, COUNTRY_CODE, EPG_FETCHER_URL, combined, channel_ids, totals,
          channel_db, epg_channels, enriched, playlist_file, epg_file, calls,
          fetched, registry_text, registry_result, guide_result, resp,
          post_result>>

----------------------------------------------------------------------------
(* Bounds of the model *)

\* number of distinct channel identifiers the playlists draw from
MaxIds == 2
\* longest guide-index array
MaxItems == 2
\* most fields in a generated registry record
MaxFields == 8

----------------------------------------------------------------------------
(* Chunks *)

NL == "\n"
SP == " "
Q == "\""
COMMA == ","
SEMI == ";"
EXTM3U == "#EXTM3U"
EXTINF == "#EXTINF"
TVGID == "tvg-id=\""
BAR == "# ======================================"
URLLINE == "http://stream"

Whitespace == {" ", "\n", "\t", "\r"}

EmptyMap == [x \in {} |-> x]

Min(S) == CHOOSE x \in S : \A y \in S : x <= y

Last(s) == s[Len(s)]

\* str.strip(chars)
RECURSIVE LStripChars(_, _)
LStripChars(s, chars) ==
    IF s = <<>> THEN s
    ELSE IF Head(s) \in chars THEN LStripChars(Tail(s), chars) ELSE s

RECURSIVE RStripChars(_, _)
RStripChars(s, chars) ==
    IF s = <<>> THEN s
    ELSE IF Last(s) \in chars THEN RStripChars(SubSeq(s, 1, Len(s) - 1), chars)
         ELSE s

StripChars(s, chars) == RStripChars(LStripChars(s, chars), chars)

\* str.strip()
Strip(s) == StripChars(s, Whitespace)

\* str.replace(tok, "")
Remove(s, tok) == SelectSeq(s, LAMBDA c : c # tok)

\* len(re.findall(tok, s))
CountOf(s, tok) == Cardinality({k \in 1..Len(s) : s[k] = tok})

\* str.split(sep)
RECURSIVE SplitOn(_, _)
SplitOn(s, sep) ==
    LET hits == {k \in 1..Len(s) : s[k] = sep}
    IN  IF hits = {} THEN <<s>>
        ELSE <<SubSeq(s, 1, Min(hits) - 1)>>
             \o SplitOn(SubSeq(s, Min(hits) + 1, Len(s)), sep)

\* str.upper() on the labels and country codes of the model
Upper(s) ==
    CASE s = "country" -> "COUNTRY"
      [] s = "news"    -> "NEWS"
      [] s = "movies"  -> "MOVIES"
      [] s = "sports"  -> "SPORTS"
      [] s = "us"      -> "US"
      [] s = "Ca"      -> "CA"
      [] OTHER         -> s

----------------------------------------------------------------------------
(* Step 1: the playlists *)

Labels == <<"country", "news", "movies", "sports">>

CallNames == {"country", "news", "movies", "sports", "registry", "guide", "post"}

NoFile == [exists |-> FALSE]
File(data) == [exists |-> TRUE, data |-> data]

Heading(label, cc) ==
    IF label = "country" THEN <<"LOCAL - ", Upper(cc)>> ELSE <<Upper(label)>>

Banner(label, cc) == <<BAR, NL, "# ">> \o Heading(label, cc) \o <<NL, BAR, NL>>

Body(content) == Strip(Remove(content, EXTM3U))

\* for m in re.finditer(r'tvg-id="([^"]+)"', content): the groups, in order
RECURSIVE FindTvgIds(_, _)
FindTvgIds(s, k) ==
    IF k > Len(s) THEN <<>>
    ELSE IF s[k] = TVGID
         THEN LET qs == {j \in (k + 1)..Len(s) : s[j] = Q}
              IN  IF qs # {} /\ Min(qs) > k + 1
                  THEN <<SubSeq(s, k + 1, Min(qs) - 1)>> \o FindTvgIds(s, Min(qs) + 1)
                  ELSE FindTvgIds(s, k + 1)
         ELSE FindTvgIds(s, k + 1)

ExtractIds_NoStrip(content) ==
    LET ms == FindTvgIds(content, 1)
    IN  {ms[k] : k \in 1..Len(ms)} \ {<<>>}

ExtractIds(content) ==
    LET ms == FindTvgIds(content, 1)
    IN  {Strip(ms[k]) : k \in 1..Len(ms)} \ {<<>>}

CombinedAfterSuccess(comb, label, cc, content) ==
    comb \o Banner(label, cc) \o Body(content) \o <<NL, NL>>

CombinedAfterFailure_Banner(comb, label, cc) == comb \o Banner(label, cc)

CombinedAfterFailure(comb, label, cc) == comb

Attempt_Retry(c, name) == [c EXCEPT ![name] = @ + 2]

Attempt(c, name) == [c EXCEPT ![name] = @ + 1]

\* A playlist the remote end serves: an optional blank line, an optional
\* #EXTM3U header, entries with the given raw tvg-id values, and optionally a
\* second #EXTM3U after the first entry (two playlists concatenated).
Entry(v) == <<EXTINF, TVGID>> \o v \o <<Q, NL, URLLINE, NL>>

RECURSIVE Entries(_, _, _)
Entries(ids, k, inner) ==
    IF k > Len(ids) THEN <<>>
    ELSE Entry(ids[k])
         \o (IF inner /\ k = 1 THEN <<EXTM3U, NL>> ELSE <<>>)
         \o Entries(ids, k + 1, inner)

PlaylistText(p) ==
    (IF p.lead THEN <<NL>> ELSE <<>>)
    \o (IF p.header THEN <<EXTM3U, NL>> ELSE <<>>)
    \o Entries(p.ids, 1, p.inner)

IdNames == <<"id1", "id2", "id3", "id4">>

Ids == {<<IdNames[k]>> : k \in 1..MaxIds}

Plain(x) == [lead |-> FALSE, header |-> TRUE, inner |-> FALSE, ids |-> <<x>>]

PlaylistResponses ==
    {[ok |-> TRUE, p |-> Plain(x)] : x \in Ids}
    \cup {[ok |-> TRUE,
           p |-> [lead |-> TRUE, header |-> TRUE, inner |-> TRUE,
                  ids |-> <<<<SP>> \o x \o <<SP>>, x>>]] : x \in Ids}
    \cup {[ok |-> TRUE,
           p |-> [lead |-> FALSE, header |-> FALSE, inner |-> FALSE,
                  ids |-> << <<>>, <<SP>> >>]],
          [ok |-> TRUE,
           p |-> [lead |-> FALSE, header |-> FALSE, inner |-> FALSE, ids |-> <<>>]],
          [ok |-> FALSE]}

BasicPlaylistResponses ==
    {[ok |-> TRUE, p |-> Plain(<<"id1">>)],
     [ok |-> TRUE, p |-> Plain(<<"id2">>)],
     [ok |-> FALSE]}

FetchSource(responses) ==
    /\ pc = "fetch"
    /\ Len(fetched) < Len(Labels)
    /\ LET label == Labels[Len(fetched) + 1]
       IN  \E r \in responses :
             /\ fetched' = Append(fetched, r)
             /\ calls' = Attempt(calls, label)
             /\ IF r.ok
                THEN LET content == PlaylistText(r.p)
                     IN  /\ totals' = (label :> CountOf(content, EXTINF)) @@ totals
                         /\ combined' = CombinedAfterSuccess(combined, label,
                                                             COUNTRY_CODE, content)
                         /\ channel_ids' = channel_ids \cup ExtractIds(content)
                ELSE /\ totals' = (label :> 0) @@ totals
                     /\ combined' = CombinedAfterFailure(combined, label, COUNTRY_CODE)
                     /\ UNCHANGED channel_ids
    /\ pc' = IF Len(fetched') = Len(Labels) THEN "write" ELSE "fetch"
    /\ UNCHANGED <<COUNTRY_CODE, EPG_FETCHER_URL, channel_db, epg_channels,
                   enriched, playlist_file, epg_file, registry_text,
                   registry_result, guide_result, resp, post_result>>

WritePlaylist ==
    /\ pc = "write"
    /\ playlist_file' = File(combined)
    /\ pc' = "registry"
    /\ UNCHANGED <<COUNTRY_CODE, EPG_FETCHER_URL, combined, channel_ids, totals,
                   channel_db, epg_channels, enriched, epg_file, calls, fetched,
                   registry_text, registry_result, guide_result, resp, post_result>>

\* write_text raises (the file system refuses): nothing catches it
WritePlaylistFails ==
    /\ pc = "write"
    /\ pc' = "fatal"
    /\ UNCHANGED <<COUNTRY_CODE, EPG_FETCHER_URL, combined, channel_ids, totals,
                   channel_db, epg_channels, enriched, playlist_file, epg_file,
                   calls, fetched, registry_text, registry_result, guide_result,
                   resp, post_result>>

----------------------------------------------------------------------------
(* Step 2: the channel registry (channels.csv) *)

MinFields == 7

\* The lookahead (?=(?:[^"]*"[^"]*")*[^"]*$) tried at position k: consume
\* pairs of quotes up to the end of the line; it matches when no quote is
\* left over.
RECURSIVE LookaheadMatches(_, _, _)
LookaheadMatches(line, k, open) ==
    IF k > Len(line) THEN ~open
    ELSE LookaheadMatches(line, k + 1, IF line[k] = Q THEN ~open ELSE open)

\* the pieces of s between the cut positions
RECURSIVE Pieces(_, _, _)
Pieces(s, cuts, from) ==
    LET rest == {k \in cuts : k >= from}
    IN  IF rest = {} THEN <<SubSeq(s, from, Len(s))>>
        ELSE <<SubSeq(s, from, Min(rest) - 1)>> \o Pieces(s, cuts, Min(rest) + 1)

SplitFields_EveryComma(line) ==
    Pieces(line, {k \in 1..Len(line) : line[k] = COMMA}, 1)

\* re.split(r',(?=(?:[^"]*"[^"]*")*[^"]*$)', line)
SplitFields(line) ==
    Pieces(line,
           {k \in 1..Len(line) :
               line[k] = COMMA /\ LookaheadMatches(line, k + 1, FALSE)},
           1)

\* one iteration of "for line in lines[1:]"
RegistryRecord(db, line) ==
    LET fields == SplitFields(line)
    IN  IF Len(fields) >= MinFields
        THEN LET ch_id == StripChars(Strip(fields[1]), {Q})
                 name  == StripChars(Strip(fields[2]), {Q})
                 lang  == Strip(SplitOn(StripChars(Strip(fields[7]), {Q}), SEMI)[1])
             IN  IF ch_id # <<>>
                 THEN (ch_id :> [name |-> name, lang |-> lang]) @@ db
                 ELSE db
        ELSE db

RECURSIVE RegistryLoop(_, _, _)
RegistryLoop(db, lines, k) ==
    IF k > Len(lines) THEN db
    ELSE RegistryLoop(RegistryRecord(db, lines[k]), lines, k + 1)

ParseRegistry(text) == RegistryLoop(EmptyMap, SplitOn(Strip(text), NL), 2)

HeaderLine == <<"id", COMMA, "name", COMMA, "alt_names", COMMA, "network", COMMA,
                "owners", COMMA, "country", COMMA, "languages">>

\* The record of the registry's documentation: id,"Demo, Channel",,,,,"en;fr"
DemoRecord(x) ==
    x \o <<COMMA, Q, "Demo", COMMA, SP, "Channel", Q, COMMA, COMMA, COMMA, COMMA,
           COMMA, Q, "en", SEMI, "fr", Q>>

BasicRegistryResponses ==
    {[ok |-> FALSE],
     [ok |-> TRUE, text |-> HeaderLine \o <<NL>>],
     [ok |-> TRUE, text |-> HeaderLine \o <<NL>> \o DemoRecord(<<"id1">>) \o <<NL>>]}

\* Generated records: up to MaxFields fields, each drawn by its position.
FieldChoices(j) ==
    IF j = 1 THEN {<<"id1">>, <<>>, <<SP, Q, "id2", Q, SP>>}
    ELSE IF j = 2 THEN {<<Q, "Demo", COMMA, SP, "Channel", Q>>, <<"Name">>,
                        <<Q, "x">>}
    ELSE IF j < MinFields THEN {<<>>, <<Q, "a", COMMA, "b", Q>>}
    ELSE {<<Q, "en", SEMI, "fr", Q>>, <<SP, "en", SP>>, <<>>}

RECURSIVE Join(_, _)
Join(fs, k) ==
    IF k > Len(fs) THEN <<>>
    ELSE (IF k > 1 THEN <<COMMA>> ELSE <<>>) \o fs[k] \o Join(fs, k + 1)

RECURSIVE FieldLists(_)
FieldLists(n) ==
    IF n = 0 THEN {<<>>}
    ELSE {Append(fs, f) : fs \in FieldLists(n - 1), f \in FieldChoices(n)}

GeneratedRecords == {Join(fs, 1) : fs \in UNION {FieldLists(n) : n \in 0..MaxFields}}

GeneratedRegistryResponses ==
    {[ok |-> TRUE, text |-> HeaderLine \o <<NL>> \o rec] : rec \in GeneratedRecords}

LoadRegistry(responses) ==
    /\ pc = "registry"
    /\ calls' = Attempt(calls, "registry")
    /\ \E r \in responses :
         IF r.ok
         THEN /\ registry_text' = r.text
              /\ channel_db' = ParseRegistry(r.text)
              /\ registry_result' = "ok"
         ELSE /\ registry_text' = <<>>
              /\ channel_db' = EmptyMap
              /\ registry_result' = "failed"
    /\ pc' = "guide"
    /\ UNCHANGED <<COUNTRY_CODE, EPG_FETCHER_URL, combined, channel_ids, totals,
                   epg_channels, enriched, playlist_file, epg_file, fetched,
                   guide_result, resp, post_result>>

----------------------------------------------------------------------------
(* Step 3: the guide-channel index (channels.json) *)

\* r.json(): an array whose elements are objects (a function from the keys
\* present to their string values) or something that is no object (null)
JsonObject(f) == [kind |-> "object", fields |-> f]
JsonNull == [kind |-> "null", fields |-> EmptyMap]

\* dict.get(key, default)
Get(o, key, default) == IF key \in DOMAIN o THEN o[key] ELSE default

\* The loop "for ch in r.json()": ch.get raises on an element that is no
\* object, and the except clause is reached with what was stored so far.
RECURSIVE GuideLoop(_, _, _)
GuideLoop(map, items, k) ==
    IF k > Len(items) THEN [map |-> map, raised |-> FALSE]
    ELSE IF items[k].kind # "object" THEN [map |-> map, raised |-> TRUE]
    ELSE LET ch == items[k].fields
         IN  IF Get(ch, "xmltv_id", <<>>) # <<>>
             THEN GuideLoop((ch["xmltv_id"] :>
                                [site    |-> Get(ch, "site", <<>>),
                                 site_id |-> Get(ch, "site_id", <<>>)]) @@ map,
                            items, k + 1)
             ELSE GuideLoop(map, items, k + 1)

GuideItems ==
    {JsonObject([xmltv_id |-> <<"id1">>, site |-> <<"tv.com">>, site_id |-> <<"1">>]),
     JsonObject([xmltv_id |-> <<"id2">>]),
     JsonObject([xmltv_id |-> <<>>, site |-> <<"tv.com">>, site_id |-> <<"3">>]),
     JsonNull}

RECURSIVE ItemLists(_)
ItemLists(n) ==
    IF n = 0 THEN {<<>>}
    ELSE {Append(l, it) : l \in ItemLists(n - 1), it \in GuideItems}

\* status: "error" (transport or HTTP status), "invalid" (the body is no JSON)
GuideResponses ==
    {[status |-> "error", items |-> <<>>], [status |-> "invalid", items |-> <<>>]}
    \cup {[status |-> "ok", items |-> l] :
            l \in UNION {ItemLists(n) : n \in 0..MaxItems}}

LoadGuideIndex ==
    /\ pc = "guide"
    /\ calls' = Attempt(calls, "guide")
    /\ \E r \in GuideResponses :
         IF r.status = "ok"
         THEN LET res == GuideLoop(EmptyMap, r.items, 1)
              IN  /\ epg_channels' = res.map
                  /\ guide_result' = IF res.raised THEN "failed" ELSE "ok"
         ELSE /\ epg_channels' = EmptyMap
              /\ guide_result' = "failed"
    /\ pc' = "step4"
    /\ UNCHANGED <<COUNTRY_CODE, EPG_FETCHER_URL, combined, channel_ids, totals,
                   channel_db, enriched, playlist_file, epg_file, fetched,
                   registry_text, registry_result, resp, post_result>>

----------------------------------------------------------------------------
(* Step 4: enrich and send to the epg-fetcher *)

FetcherUrl == <<"https://epg-fetcher.example/epg">>

EnrichmentSkipped_UrlOnly(url, ids) == url = <<>>

\* "if not EPG_FETCHER_URL ... elif not channel_ids ..."
EnrichmentSkipped(url, ids) == url = <<>> \/ ids = {}

EnrichedEntry_Partial(cid, db, epg) ==
    ("xmltv_id" :> cid)
    @@ (IF cid \in DOMAIN db THEN ("name" :> db[cid].name) ELSE EmptyMap)
    @@ (IF cid \in DOMAIN epg
        THEN ("site" :> epg[cid].site) @@ ("site_id" :> epg[cid].site_id)
        ELSE EmptyMap)

\* the entry built for cid by the loop "for cid in channel_ids"
EnrichedEntry(cid, db, epg) ==
    ("xmltv_id" :> cid)
    @@ (IF cid \in DOMAIN db
        THEN ("name" :> db[cid].name) @@ ("lang" :> db[cid].lang)
        ELSE EmptyMap)
    @@ (IF cid \in DOMAIN epg
        THEN ("site" :> epg[cid].site) @@ ("site_id" :> epg[cid].site_id)
        ELSE EmptyMap)

\* the orders in which a set may be iterated
Orders(S) ==
    {o \in [1..Cardinality(S) -> S] : \A a, b \in 1..Cardinality(S) : a # b => o[a] # o[b]}

(* Bytes: the guide data under a number of gzip layers. *)
Bytes(layers) == [gz |-> layers, data |-> "guide.xml"]
Gzip(b) == [b EXCEPT !.gz = @ + 1]
Gunzip(b) == [b EXCEPT !.gz = @ - 1]
IsGzip(b) == b.gz > 0

\* "gzip" in header
HasGzip(header) == \E k \in 1..Len(header) : header[k] = "gzip"

\* What the epg-fetcher may answer.  A server that sets Content-Encoding: gzip
\* sends the body gzip-compressed on the wire; the last response claims the
\* encoding for a body that is not compressed.
PostResponses ==
    {[status |-> "error", ce |-> <<>>, ct |-> <<>>, wire |-> Bytes(0)],
     [status |-> "ok", ce |-> <<>>, ct |-> <<"application/", "xml">>, wire |-> Bytes(0)],
     [status |-> "ok", ce |-> <<>>, ct |-> <<"application/", "gzip">>, wire |-> Bytes(1)],
     [status |-> "ok", ce |-> <<"gzip">>, ct |-> <<"application/", "xml">>,
      wire |-> Bytes(1)],
     [status |-> "ok", ce |-> <<"gzip">>, ct |-> <<"application/", "xml">>,
      wire |-> Bytes(0)]}

\* requests decodes a body whose Content-Encoding is gzip while reading it,
\* and raises when the body does not decode
ContentRaises(r) == HasGzip(r.ce) /\ ~IsGzip(r.wire)

\* resp.content
Content(r) == IF HasGzip(r.ce) THEN Gunzip(r.wire) ELSE r.wire

\* what epg_path.write_bytes is given
Persisted(r) ==
    IF HasGzip(r.ce) \/ HasGzip(r.ct) THEN Content(r) ELSE Gzip(Content(r))

AfterPostFailure_Uncaught == "fatal"

\* "except Exception as e: print(...)": the script goes on to its last line
AfterPostFailure == "done"

SkipEnrichment ==
    /\ pc = "step4"
    /\ EnrichmentSkipped(EPG_FETCHER_URL, channel_ids)
    /\ pc' = "done"
    /\ UNCHANGED <<COUNTRY_CODE, EPG_FETCHER_URL, combined, channel_ids, totals,
                   channel_db, epg_channels, enriched, playlist_file, epg_file,
                   calls, fetched, registry_text, registry_result, guide_result,
                   resp, post_result>>

PostEnrichment ==
    /\ pc = "step4"
    /\ ~EnrichmentSkipped(EPG_FETCHER_URL, channel_ids)
    /\ \E o \in Orders(channel_ids) :
         enriched' = [k \in 1..Len(o) |-> EnrichedEntry(o[k], channel_db, epg_channels)]
    /\ calls' = Attempt(calls, "post")
    /\ \E r \in PostResponses :
         /\ resp' = r
         /\ IF r.status = "ok" /\ ~ContentRaises(r)
            THEN /\ epg_file' = File(Persisted(r))
                 /\ post_result' = "ok"
                 /\ pc' = "done"
            ELSE /\ post_result' = "failed"
                 /\ pc' = AfterPostFailure
                 /\ UNCHANGED epg_file
    /\ UNCHANGED <<COUNTRY_CODE, EPG_FETCHER_URL, combined, channel_ids, totals,
                   channel_db, epg_channels, playlist_file, fetched,
                   registry_text, registry_result, guide_result>>

----------------------------------------------------------------------------
(* Specifications *)

Start ==
    /\ pc = "fetch"
    /\ combined = <<EXTM3U, NL, NL>>
    /\ channel_ids = {}
    /\ totals = EmptyMap
    /\ channel_db = EmptyMap
    /\ epg_channels = EmptyMap
    /\ enriched = <<>>
    /\ playlist_file = NoFile
    /\ epg_file = NoFile
    /\ calls = [c \in CallNames |-> 0]
    /\ fetched = <<>>
    /\ registry_text = <<>>
    /\ registry_result = "pending"
    /\ guide_result = "pending"
    /\ resp = [status |-> "none", ce |-> <<>>, ct |-> <<>>, wire |-> Bytes(0)]
    /\ post_result = "pending"

\* The whole run, the enrichment endpoint configured or not.
Init ==
    /\ Start
    /\ COUNTRY_CODE = "us"
    /\ EPG_FETCHER_URL \in {<<>>, FetcherUrl}

Next ==
    \/ FetchSource(BasicPlaylistResponses)
    \/ WritePlaylist
    \/ WritePlaylistFails
    \/ LoadRegistry(BasicRegistryResponses)
    \/ LoadGuideIndex
    \/ SkipEnrichment
    \/ PostEnrichment

Spec == Init /\ [][Next]_vars

\* Every step is a blocking call with a timeout or a local computation: a
\* step that can be taken is taken.
FairSpec == Spec /\ WF_vars(Next)

\* Step 1 on the wider set of playlists, under two country codes.
InitAgg ==
    /\ Start
    /\ COUNTRY_CODE \in {"us", "Ca"}
    /\ EPG_FETCHER_URL = <<>>

NextAgg ==
    \/ FetchSource(PlaylistResponses)
    \/ WritePlaylist

SpecAgg == InitAgg /\ [][NextAgg]_vars

\* Step 2 on the generated registry records, after a Step 1 in which no
\* source answered.
InitCsv ==
    /\ Start
    /\ COUNTRY_CODE = "us"
    /\ EPG_FETCHER_URL = <<>>

NextCsv ==
    \/ FetchSource({[ok |-> FALSE]})
    \/ WritePlaylist
    \/ LoadRegistry(GeneratedRegistryResponses)

SpecCsv == InitCsv /\ [][NextCsv]_vars

----------------------------------------------------------------------------
(* Properties *)

Max(S) == CHOOSE x \in S : \A y \in S : y <= x

\* s without the leading and trailing chunks that are in chars
Trimmed(s, chars) ==
    LET keep == {k \in 1..Len(s) : s[k] \notin chars}
    IN  IF keep = {} THEN <<>> ELSE SubSeq(s, Min(keep), Max(keep))

\* the i-th smallest member of a set of numbers
Nth(S, i) == CHOOSE x \in S : Cardinality({y \in S : y < x}) = i - 1

Succeeded == {k \in 1..Len(fetched) : fetched[k].ok}
Failed == {k \in 1..Len(fetched) : ~fetched[k].ok}

\* The heading the specification gives a source.
SpecHeading(label) ==
    CASE label = "country" -> <<"LOCAL - ", IF COUNTRY_CODE = "us" THEN "US" ELSE "CA">>
      [] label = "news"    -> <<"NEWS">>
      [] label = "movies"  -> <<"MOVIES">>
      [] label = "sports"  -> <<"SPORTS">>

\* The banner sections of a text, each by its heading, in order: a bar line,
\* the line "# <heading>", a bar line.
HeadingAt(s, k) == SubSeq(s, k + 1, Min({j \in (k + 1)..Len(s) : s[j] = NL}) - 1)

BannerStarts(s) ==
    {k \in 3..Len(s) :
        /\ s[k] = "# " /\ s[k - 1] = NL /\ s[k - 2] = BAR
        /\ \E j \in (k + 1)..(Len(s) - 2) :
              /\ s[j] = NL /\ s[j + 1] = BAR /\ s[j + 2] = NL
              /\ \A i \in (k + 1)..(j - 1) : s[i] # NL}

BannerHeadings(s) ==
    [i \in 1..Cardinality(BannerStarts(s)) |-> HeadingAt(s, Nth(BannerStarts(s), i))]

SucceededHeadings ==
    [i \in 1..Cardinality(Succeeded) |-> SpecHeading(Labels[Nth(Succeeded, i)])]

\* C1: whatever fetches succeeded or failed, the combined document holds one
\* banner section per source fetched with success, in the declared order
\* country, news, movies, sports, and none for a source whose fetch failed
\* (with no success at all it is the bare #EXTM3U header).
C1_OneSectionPerFetchedSource ==
    /\ BannerHeadings(combined) = SucceededHeadings
    /\ Succeeded = {} => combined = <<EXTM3U, NL, NL>>
    /\ playlist_file.exists => BannerHeadings(playlist_file.data) = SucceededHeadings

\* one of the four sources failed, three sections were written
C1_Witness ==
    /\ playlist_file.exists
    /\ Cardinality(Failed) = 1
    /\ Len(BannerHeadings(playlist_file.data)) = 3

\* The raw tvg-id values of the sources fetched with success.
FetchedRawIds ==
    UNION {{fetched[k].p.ids[j] : j \in 1..Len(fetched[k].p.ids)} : k \in Succeeded}

\* C6: the identifier set is exactly the set of distinct non-empty trimmed
\* tvg-id values of the sources fetched with success; an identifier found in
\* several sources, or several times in one, is one member; failed sources
\* contribute nothing.
C6_IdentifierSet ==
    channel_ids = {Trimmed(v, Whitespace) : v \in FetchedRawIds} \ {<<>>}

\* id1 was served by two sources (one of them twice, once padded) and a
\* source failed: id1 is the only member
C6_Witness ==
    /\ pc = "write"
    /\ Failed # {}
    /\ Cardinality({k \in Succeeded : <<"id1">> \in
                       {fetched[k].p.ids[j] : j \in 1..Len(fetched[k].p.ids)}}) >= 2
    /\ \E k \in Succeeded : Len(fetched[k].p.ids) = 2 /\ fetched[k].p.inner
    /\ channel_ids = {<<"id1">>}

\* The text of a source with only its leading #EXTM3U removed, trimmed.
WithoutLeadingMarker(content) ==
    LET first == {k \in 1..Len(content) : content[k] \notin Whitespace}
    IN  IF first # {} /\ content[Min(first)] = EXTM3U
        THEN SubSeq(content, 1, Min(first) - 1)
             \o SubSeq(content, Min(first) + 1, Len(content))
        ELSE content

RECURSIVE SpecCombined(_)
SpecCombined(k) ==
    IF k = 0 THEN <<EXTM3U, NL, NL>>
    ELSE IF fetched[k].ok
         THEN SpecCombined(k - 1)
              \o <<BAR, NL, "# ">> \o SpecHeading(Labels[k]) \o <<NL, BAR, NL>>
              \o Trimmed(WithoutLeadingMarker(PlaylistText(fetched[k].p)), Whitespace)
              \o <<NL, NL>>
         ELSE SpecCombined(k - 1)

\* C10: for every source fetched with success the body after its banner is
\* the fetched text with only its leading #EXTM3U removed and the surrounding
\* white space trimmed, everything else preserved; the banner names the
\* source "LOCAL - <COUNTRY CODE>" or the uppercased label.
C10_BodyIsSourceMinusLeadingMarker == combined = SpecCombined(Len(fetched))

----------------------------------------------------------------------------

TheRecord == SubSeq(registry_text, Len(HeaderLine) + 2, Len(registry_text))

QuotesIn(s, from, to) == Cardinality({j \in from..to : j \in 1..Len(s) /\ s[j] = Q})

\* commas outside quoted fields, reading left to right
OutsideQuoteCommas(s) ==
    {k \in 1..Len(s) : s[k] = COMMA /\ QuotesIn(s, 1, k - 1) % 2 = 0}

\* commas with an even number of quotes after them (the rule of the design)
EvenRightCommas(s) ==
    {k \in 1..Len(s) : s[k] = COMMA /\ QuotesIn(s, k + 1, Len(s)) % 2 = 0}

Balanced(s) == QuotesIn(s, 1, Len(s)) % 2 = 0

SpecCommas(s) == IF Balanced(s) THEN OutsideQuoteCommas(s) ELSE EvenRightCommas(s)

SpecFields(s) ==
    LET cuts == SpecCommas(s) \cup {0, Len(s) + 1}
    IN  [i \in 1..(Cardinality(cuts) - 1) |->
            SubSeq(s, Nth(cuts, i) + 1, Nth(cuts, i + 1) - 1)]

Unquoted(s) == Trimmed(Trimmed(s, Whitespace), {Q})

BeforeSemicolon(s) ==
    LET semis == {k \in 1..Len(s) : s[k] = SEMI}
    IN  Trimmed(IF semis = {} THEN s ELSE SubSeq(s, 1, Min(semis) - 1), Whitespace)

SpecRegistry(rec) ==
    LET f == SpecFields(rec)
    IN  IF Len(f) < 7 \/ Unquoted(f[1]) = <<>> THEN EmptyMap
        ELSE (Unquoted(f[1]) :> [name |-> Unquoted(f[2]),
                                 lang |-> BeforeSemicolon(Unquoted(f[7]))])

\* C8: a record is split on the commas outside quoted fields (in a record
\* whose quotes do not pair up: on the commas followed by an even number of
\* quotes); a record of fewer than 7 fields or with an empty identifier is
\* ignored; otherwise field 0 maps to field 1 without its quotes and to the
\* text of field 6 before the first ';'.  id1,"Demo, Channel",,,,,"en;fr"
\* gives name "Demo, Channel" and language "en".
C8_RegistryParser ==
    registry_result = "ok" =>
        /\ channel_db = SpecRegistry(TheRecord)
        /\ TheRecord = DemoRecord(<<"id1">>) =>
              channel_db = (<<"id1">> :> [name |-> <<"Demo", COMMA, SP, "Channel">>,
                                          lang |-> <<"en">>])

C8_Witness ==
    /\ registry_result = "ok"
    /\ TheRecord = DemoRecord(<<"id1">>)
    /\ DOMAIN channel_db = {<<"id1">>}
    /\ channel_db[<<"id1">>].lang = <<"en">>

----------------------------------------------------------------------------

Has(e, key) == key \in DOMAIN e

\* C7: every entry built by the dispatcher carries its identifier; name and
\* lang are both present or both absent, present exactly when the identifier
\* is a key of the registry mapping; site and site_id likewise for the
\* guide-index mapping.
C7_EnrichedEntries ==
    /\ \A k \in 1..Len(enriched) :
          LET e == enriched[k]
          IN  /\ Has(e, "xmltv_id") /\ e["xmltv_id"] \in channel_ids
              /\ Has(e, "name") <=> Has(e, "lang")
              /\ Has(e, "name") <=> e["xmltv_id"] \in DOMAIN channel_db
              /\ Has(e, "site") <=> Has(e, "site_id")
              /\ Has(e, "site") <=> e["xmltv_id"] \in DOMAIN epg_channels
    /\ calls["post"] > 0 => {enriched[k]["xmltv_id"] : k \in 1..Len(enriched)} = channel_ids

C7_Witness ==
    /\ Len(enriched) = 2
    /\ \E k \in 1..2 : Has(enriched[k], "name") /\ Has(enriched[k], "lang")
                       /\ ~Has(enriched[k], "site")
    /\ \E k \in 1..2 : Has(enriched[k], "site") /\ Has(enriched[k], "site_id")
                       /\ ~Has(enriched[k], "name")

\* C3: epg.xml.gz is written only if the endpoint was configured, the
\* identifier set was not empty and the POST succeeded; with the endpoint
\* configured and an empty identifier set no POST is made, no guide-data file
\* is written and the playlist file is written.
C3_GuideFileOnlyOnSuccess ==
    /\ epg_file.exists =>
          /\ EPG_FETCHER_URL # <<>>
          /\ channel_ids # {}
          /\ calls["post"] = 1 /\ resp.status = "ok" /\ post_result = "ok"
    /\ (pc = "done" /\ EPG_FETCHER_URL # <<>> /\ channel_ids = {}) =>
          /\ calls["post"] = 0
          /\ ~epg_file.exists
          /\ playlist_file.exists

C3_Witness ==
    /\ pc = "done"
    /\ EPG_FETCHER_URL # <<>>
    /\ channel_ids = {}
    /\ calls["post"] = 0
    /\ playlist_file.exists

DeclaredGzip(r) == HasGzip(r.ce) \/ HasGzip(r.ct)

\* C4: after a successful POST the persisted bytes are a gzip stream of the
\* guide data: the response bytes unchanged when the response is declared
\* gzip, and otherwise a gzip stream that decompresses to the response bytes.
C4_PersistedIsGzip ==
    epg_file.exists =>
        /\ IsGzip(epg_file.data)
        /\ DeclaredGzip(resp) => epg_file.data = resp.wire
        /\ ~DeclaredGzip(resp) => epg_file.data.gz = resp.wire.gz + 1

\* C5: a load that fails, at any point, leaves its mapping empty and the
\* other mapping as it was, and the run goes on to the enrichment stage.
C5_FailedLoadLeavesEmptyMapping ==
    /\ registry_result = "failed" => channel_db = EmptyMap /\ pc # "registry"
    /\ guide_result = "failed" => epg_channels = EmptyMap /\ pc \in {"step4", "done"}

GetCalls == CallNames \ {"post"}

\* C9 as stated: every remote call, the POST included, is made exactly once
\* in a run.
C9_EachCallExactlyOnce == pc = "done" => \A c \in CallNames : calls[c] = 1

\* C9, amended: no call is ever made twice; a run that ends has made each of
\* the six GETs exactly once, and the POST exactly once when the endpoint is
\* configured and the identifier set is not empty, and not at all otherwise.
C9_NoCallRepeated ==
    /\ \A c \in CallNames : calls[c] <= 1
    /\ pc = "done" =>
          /\ \A c \in GetCalls : calls[c] = 1
          /\ calls["post"] = (IF EPG_FETCHER_URL # <<>> /\ channel_ids # {} THEN 1 ELSE 0)

\* a run in which a playlist GET, the registry GET, the guide-index GET and
\* the POST all failed
C9_Witness ==
    /\ pc = "done"
    /\ Failed # {} /\ Succeeded # {}
    /\ registry_result = "failed" /\ guide_result = "failed"
    /\ post_result = "failed" /\ calls["post"] = 1

\* C2: whatever remote calls fail, the run ends normally with the combined
\* playlist written, unless writing the playlist file itself failed.
C2_RunEndsWithPlaylist ==
    <>(\/ pc = "done" /\ playlist_file = File(combined)
       \/ pc = "fatal" /\ ~playlist_file.exists /\ Len(fetched) = Len(Labels))

C2_Witness ==
    /\ pc = "done"
    /\ playlist_file = File(combined)
    /\ Cardinality(Failed) = 3
    /\ registry_result = "failed" /\ guide_result = "failed"
    /\ post_result = "failed"

====
